---------------------------- MODULE Spec2Model ----------------------------
(***************************************************************************)
(* A model of src-game-csv-exporter.js: the upstream client (request       *)
(* spacing, retries, pagination, cached lookups), the run normalizer       *)
(* (processRun), the leaderboard builder and the ranker.                   *)
(*                                                                         *)
(* JavaScript values are held as TLA+ records so that values of different  *)
(* JavaScript types can be compared:                                       *)
(*   undefined        [undef |-> TRUE]                                     *)
(*   null             [null |-> TRUE]                                      *)
(*   a string         [str |-> "verified"]                                 *)
(*   a string built character by character (the formatted time)            *)
(*                    [txt |-> <<"0", "1", ":", ...>>]                     *)
(*   a number         [num |-> n]   (times: n counts 1/TicksPerSecond s)   *)
(*   an array         [arr |-> <<v1, v2, ...>>]                            *)
(*   a plain object   a record whose fields are the object's properties    *)
(***************************************************************************)
EXTENDS Integers, Sequences, FiniteSets, TLC

VARIABLES
    \* ---- run(): the export pipeline (lines 73-317)
    stage,          \* position of run(): "fetch", "built", "ranked"
    received,       \* raw runs the pagination has handed over
    categories,     \* categories: catId -> catObj (runs present until deleted)
    leaderboards,   \* leaderboards: lbId -> lbObj
    normalized,     \* history: every run pushed to a category's runs, in order
    builtBoards,    \* history: the leaderboards as the builder left them
    popts,          \* program.opts(): breakoutVariables, includeRunHistory, includeUnverifiedRuns
    userMap,        \* userMap cache of getUsername
    platformMap,    \* platformMap cache of getPlatform
    upstream,       \* what the API answers for users/<id> and platforms/<id>
    \* ---- getUsername / getPlatform callers (lines 89-109)
    lookups,        \* getUsername / getPlatform calls made
    requestLog,     \* history: the lookup paths requested from the API, in order
    returned,       \* history: kind -> id -> the set of results returned so far
    \* ---- processRun applied to one input (lines 111-178)
    nPc,            \* "start", "once", "twice"
    nIn,            \* the raw run object handed to processRun
    nOut1,          \* processRun(nIn)
    nOut2,          \* processRun(nOut1)
    \* ---- speedrunApiRequest (lines 27-52)
    now,            \* Date.now(), in ms
    lastRequestTimestamp,
    apiPc,          \* "idle", "sleep", "inflight", "backoff", "failed"
    attempt,        \* attempts made by pasync.retry in the current call
    calls,          \* speedrunApiRequest calls started
    inFlight,       \* HTTP requests sent and not yet answered
    lastSent,       \* history: when the previous HTTP request was sent (-1: none)
    minGap,         \* history: smallest time between two consecutive sends (-1: none)
    \* ---- paginateSpeedrunApiRequest (lines 55-70)
    pgPc,           \* "request", "task", "done", "aborted"
    qsOffset,       \* qs.offset
    pageData,       \* the page being iterated
    pageIdx,        \* items of pageData already handed to task
    taskLog,        \* history: the items task was called on, in order
    offsetLog,      \* history: the offsets requested, in order
    served          \* history: the pages returned, in order

pipeVars == <<stage, received, categories, leaderboards, normalized, builtBoards>>
envVars == <<popts, userMap, platformMap, upstream>>
lookupVars == <<lookups, requestLog, returned>>
normVars == <<nPc, nIn, nOut1, nOut2>>
apiVars == <<now, lastRequestTimestamp, apiPc, attempt, calls, inFlight, lastSent, minGap>>
pageVars == <<pgPc, qsOffset, pageData, pageIdx, taskLog, offsetLog, served>>
vars == <<pipeVars, envVars, lookupVars, normVars, apiVars, pageVars>>

-----------------------------------------------------------------------------
(* Bounds of the model *)

\* Resolution of primary_t: one unit of a [num] time is 1/TicksPerSecond s.
TicksPerSecond == 2
\* Runs the API returns for the category.
MaxRuns == 3
\* Lookup calls made in the lookup specification.
MaxLookups == 4
\* primary_t values 0 .. MaxSmallTicks (in ticks) are all tried by processRun.
MaxSmallTicks == 5
\* speedrunApiRequest calls in the request-spacing specification.
MaxCalls == 3
\* Full pages the API serves before it must serve a short one.
MaxPages == 2

-----------------------------------------------------------------------------
(* JavaScript values *)

Undefined == [undef |-> TRUE]
Null == [null |-> TRUE]
EmptyObj == [k \in {} |-> Undefined]
S(s) == [str |-> s]
N(n) == [num |-> n]
Txt(cs) == [txt |-> cs]
Arr(xs) == [arr |-> xs]

IsUndefined(v) == DOMAIN v = {"undef"}
IsNull(v) == DOMAIN v = {"null"}
IsStr(v) == DOMAIN v = {"str"}
IsNum(v) == DOMAIN v = {"num"}
IsTxt(v) == DOMAIN v = {"txt"}
IsArr(v) == DOMAIN v = {"arr"}
IsObject(v) == ~(IsUndefined(v) \/ IsNull(v) \/ IsStr(v) \/ IsNum(v) \/ IsTxt(v) \/ IsArr(v))

\* ToBoolean: undefined, null, "" and 0 are falsy; objects and arrays are truthy.
Truthy(v) ==
    IF IsUndefined(v) \/ IsNull(v) THEN FALSE
    ELSE IF IsStr(v) THEN v.str # ""
    ELSE IF IsTxt(v) THEN Len(v.txt) > 0
    ELSE IF IsNum(v) THEN v.num # 0
    ELSE TRUE

\* v.k (v neither undefined nor null): a property a plain object does not own,
\* and any such property of a string, number or array, reads as undefined.
Get(v, k) == IF IsObject(v) /\ k \in DOMAIN v THEN v[k] ELSE Undefined

\* obj.k = val
Put(obj, k, val) == [x \in DOMAIN obj \cup {k} |-> IF x = k THEN val ELSE obj[x]]

\* delete obj.k
Delete(obj, k) == [x \in DOMAIN obj \ {k} |-> obj[x]]

\* a % b of JavaScript (the sign of the dividend), b > 0
JsRem(a, b) == IF a >= 0 THEN a % b ELSE -((-a) % b)


\* the property key a value is coerced to in obj[v]
PropKey(v) == IF IsStr(v) THEN v.str ELSE IF IsUndefined(v) THEN "undefined" ELSE "null"

\* arr[i] with i counted from 1; undefined past the end or on a non-array
Index(v, i) == IF IsArr(v) /\ i \in 1..Len(v.arr) THEN v.arr[i] ELSE Undefined

-----------------------------------------------------------------------------
(* Strings built character by character *)

DigitChars == <<"0", "1", "2", "3", "4", "5", "6", "7", "8", "9">>

\* '' + n for an integer n
RECURSIVE NatToChars(_)
NatToChars(n) ==
    IF n < 10 THEN <<DigitChars[n + 1]>>
    ELSE NatToChars(n \div 10) \o <<DigitChars[(n % 10) + 1]>>

NumToChars(n) == IF n < 0 THEN <<"-">> \o NatToChars(-n) ELSE NatToChars(n)

\* cs.padStart(len, pad) for a one-character pad
RECURSIVE PadStart(_, _, _)
PadStart(cs, len, pad) ==
    IF Len(cs) >= len THEN cs ELSE PadStart(<<pad>> \o cs, len, pad)

-----------------------------------------------------------------------------
(* processRun: the time string (lines 128-136) *)

\* Math.floor of a time held in ticks
Floor(ticks) == ticks \div TicksPerSecond

FormatTimeMinutesMod60(primary_t) ==
    LET unresolved0 == Floor(primary_t)
        seconds == JsRem(unresolved0, 60)
        unresolved1 == unresolved0 - seconds
        minutesRaw == JsRem(unresolved1, 60)
        unresolved2 == unresolved1 - minutesRaw
        minutes == minutesRaw \div 60
        hours == unresolved2 \div 3600
    IN  Txt(PadStart(NumToChars(hours), 2, "0") \o <<":">>
            \o PadStart(NumToChars(minutes), 2, "0") \o <<":">>
            \o PadStart(NumToChars(seconds), 2, "0"))

FormatTime(primary_t) ==
    LET unresolved0 == Floor(primary_t)
        seconds == JsRem(unresolved0, 60)
        unresolved1 == unresolved0 - seconds
        minutesRaw == JsRem(unresolved1, 3600)
        unresolved2 == unresolved1 - minutesRaw
        minutes == minutesRaw \div 60
        hours == unresolved2 \div 3600
    IN  Txt(PadStart(NumToChars(hours), 2, "0") \o <<":">>
            \o PadStart(NumToChars(minutes), 2, "0") \o <<":">>
            \o PadStart(NumToChars(seconds), 2, "0"))

-----------------------------------------------------------------------------
(* getPlatform and getUsername (lines 89-109).  Each returns the value the   *)
(* call resolves to, the cache after it, and the API paths it requested.     *)

GetPlatform(pm, platformId, up) ==
    IF ~Truthy(platformId) THEN [ret |-> Undefined, map |-> pm, reqs |-> <<>>]
    ELSE IF Truthy(Get(pm, platformId.str))
    THEN [ret |-> pm[platformId.str], map |-> pm, reqs |-> <<>>]
    ELSE LET response == up.platforms[platformId.str]
             path == "platforms/" \o platformId.str
         IN  IF Truthy(response) /\ Truthy(Get(response, "name"))
             THEN [ret |-> Get(response, "name"),
                   map |-> Put(pm, platformId.str, Get(response, "name")),
                   reqs |-> <<path>>]
             ELSE [ret |-> Undefined, map |-> pm, reqs |-> <<path>>]

GetUsername(um, userId, up) ==
    IF ~Truthy(userId) THEN [ret |-> Undefined, map |-> um, reqs |-> <<>>]
    ELSE IF Truthy(Get(um, userId.str))
    THEN [ret |-> um[userId.str], map |-> um, reqs |-> <<>>]
    ELSE LET response == up.users[userId.str]
             path == "users/" \o userId.str
             name == Get(Get(response, "names"), "international")
         IN  IF Truthy(response) /\ Truthy(Get(response, "names")) /\ Truthy(name)
             THEN [ret |-> name, map |-> Put(um, userId.str, name), reqs |-> <<path>>]
             ELSE [ret |-> Undefined, map |-> um, reqs |-> <<path>>]

-----------------------------------------------------------------------------
(* processRun (lines 111-178).  The result holds what the call resolves to  *)
(* (a run object, null, or TypeErrorThrown when it rejects) and the caches  *)
(* after it.                                                                *)

TypeErrorThrown == [thrown |-> "TypeError"]

\* lines 127-138: time and timeSeconds are set when times.primary_t is truthy
WithTimes(runObj, r) ==
    LET times == Get(r, "times")
        primary_t == Get(times, "primary_t")
    IN  IF Truthy(times) /\ Truthy(primary_t)
        THEN Put(Put(runObj, "time", FormatTime(primary_t.num)), "timeSeconds", primary_t)
        ELSE runObj

\* lines 145-153: the uris of videos.links, the falsy ones dropped
WithVideos(runObj, r) ==
    LET links == Get(Get(r, "videos"), "links")
        uris == [i \in 1..Len(links.arr) |-> Get(links.arr[i], "uri")]
    IN  IF Truthy(Get(r, "videos")) /\ Truthy(links) /\ Truthy(Index(links, 1))
        THEN Put(runObj, "videos", Arr(SelectSeq(uris, Truthy)))
        ELSE runObj

\* lines 120-125
RejectsForStatus(runObj, includeUnverifiedRuns) ==
    \/ ~Truthy(runObj.status)
    \/ (~includeUnverifiedRuns /\ runObj.status # S("verified"))

\* line 139: if (!runObj.timeSeconds) return null
RejectsForTime(runObj) == ~Truthy(Get(runObj, "timeSeconds"))

\* the two tests with neither of them rejecting
RejectedNever(runObj, includeUnverifiedRuns) == FALSE

\* the time test alone
RejectedForTimeOnly(runObj, includeUnverifiedRuns) == RejectsForTime(runObj)

\* lines 120-125 and 139: the two tests that make processRun return null
\* (runObj already holds time and timeSeconds, which the first test ignores)
Rejected(runObj, includeUnverifiedRuns) ==
    RejectsForStatus(runObj, includeUnverifiedRuns) \/ RejectsForTime(runObj)

ProcessRun(r, includeUnverifiedRuns, um, pm, up) ==
    IF ~Truthy(r) THEN [ret |-> Null, userMap |-> um, platformMap |-> pm]
    ELSE IF IsUndefined(Get(r, "status")) \/ IsNull(Get(r, "status"))
    THEN [ret |-> TypeErrorThrown, userMap |-> um, platformMap |-> pm]
    ELSE
    LET status == Get(r, "status")
        runObj0 == [id |-> Get(r, "id"),
                    comment |-> Get(r, "comment"),
                    submitTime |-> Get(r, "submitted"),
                    status |-> Get(status, "status"),
                    variables |-> IF Truthy(Get(r, "values")) THEN Get(r, "values") ELSE EmptyObj]
        runObj1 == WithTimes(runObj0, r)
        verified == runObj1.status = S("verified")
        \* lines 141-144
        examiner == IF verified THEN GetUsername(um, Get(status, "examiner"), up)
                    ELSE [ret |-> Undefined, map |-> um, reqs |-> <<>>]
        runObj2 == IF verified
                   THEN Put(Put(runObj1, "verifyTime", Get(status, "verify-date")),
                            "verifier", examiner.ret)
                   ELSE runObj1
        runObj3 == WithVideos(runObj2, r)
        \* lines 154-156
        hasPlatform == Truthy(Get(r, "system")) /\ Truthy(Get(Get(r, "system"), "platform"))
        platform == IF hasPlatform THEN GetPlatform(pm, Get(Get(r, "system"), "platform"), up)
                    ELSE [ret |-> Undefined, map |-> pm, reqs |-> <<>>]
        runObj4 == IF hasPlatform THEN Put(runObj3, "platform", platform.ret) ELSE runObj3
        \* lines 157-175
        players == Get(r, "players")
        onePlayer == Truthy(players) /\ IsArr(players) /\ Len(players.arr) = 1
        playerObj == Index(players, 1)
        isGuest == onePlayer /\ Get(playerObj, "rel") = S("guest")
        isUser == onePlayer /\ Get(playerObj, "rel") = S("user")
        username == IF isUser THEN GetUsername(examiner.map, Get(playerObj, "id"), up)
                    ELSE [ret |-> Undefined, map |-> examiner.map, reqs |-> <<>>]
        runObj5 == IF isGuest
                   THEN Put(runObj4, "player",
                            [rel |-> S("guest"), id |-> Get(playerObj, "name"),
                             name |-> Get(playerObj, "name")])
                   ELSE IF isUser
                   THEN Put(runObj4, "player",
                            [rel |-> S("user"), id |-> Get(playerObj, "id"),
                             name |-> username.ret])
                   ELSE runObj4
    IN  IF Rejected(runObj1, includeUnverifiedRuns)
        THEN [ret |-> Null, userMap |-> um, platformMap |-> pm]
        ELSE [ret |-> runObj5, userMap |-> username.map, platformMap |-> platform.map]

-----------------------------------------------------------------------------
(* What the API serves *)

UserIds == {"u1", "u2"}
PlatformIds == {"p1"}

\* users/<id>: with names.international, or without a name
UserResponse(id, named) ==
    IF named THEN [id |-> S(id), names |-> [international |-> S("name-" \o id)]]
    ELSE [id |-> S(id), names |-> EmptyObj]

\* platforms/<id>
PlatformResponse(id, named) ==
    IF named THEN [id |-> S(id), name |-> S("name-" \o id)] ELSE [id |-> S(id)]

Upstreams ==
    {[users |-> [id \in UserIds |-> UserResponse(id, id \in nu)],
      platforms |-> [id \in PlatformIds |-> PlatformResponse(id, id \in np)]] :
        nu \in SUBSET UserIds, np \in SUBSET PlatformIds}

Options == [breakoutVariables : BOOLEAN, includeRunHistory : BOOLEAN,
            includeUnverifiedRuns : BOOLEAN]

\* status objects of a raw run
VerifiedStatus ==
    Put([status |-> S("verified"), examiner |-> S("u1")], "verify-date", S("2021-03-04"))
StatusObjs == {VerifiedStatus, [status |-> S("new")],
               [status |-> S("rejected"), examiner |-> S("u2")], EmptyObj}

\* players arrays of a raw run
GuestPlayer(name) == [rel |-> S("guest"), name |-> S(name)]
UserPlayer(id) == [rel |-> S("user"), id |-> S(id)]
PlayerLists == {<<>>, <<GuestPlayer("g1")>>, <<UserPlayer("u1")>>,
                <<UserPlayer("u1"), UserPlayer("u2")>>, <<[rel |-> S("user")]>>}

\* primary_t values (in ticks) tried by processRun: the small ones, and the
\* seconds around the minute, the hour and a hundred hours, whole and fractional
KeySeconds == {59, 60, 3599, 3600, 3661, 7200, 359999, 360000, 363661}
NormTicks ==
    (0..MaxSmallTicks)
        \cup {sec * TicksPerSecond + f : sec \in KeySeconds, f \in {0, TicksPerSecond - 1}}

\* a raw run of the API
RawRun(id, statusObj, players, values) ==
    [id |-> S(id), comment |-> S("gg"), submitted |-> S("2021-03-01"),
     status |-> statusObj, players |-> Arr(players), values |-> values]

WithExtras(raw) ==
    Put(Put(raw, "system", [platform |-> S("p1")]),
        "videos", [links |-> Arr(<<[uri |-> S("https://v/1")], [uri |-> S("")]>>)])

NormRawRuns ==
    LET bare == {RawRun("r1", st, pl, EmptyObj) : st \in StatusObjs, pl \in PlayerLists}
        timed == bare \cup {Put(raw, "times", [primary_t |-> N(t)]) :
                                raw \in bare, t \in NormTicks}
    IN  timed \cup {WithExtras(raw) : raw \in timed}

-----------------------------------------------------------------------------
(* Values of the variables a specification does not use *)

PipeOff == stage = "off" /\ received = 0 /\ categories = EmptyObj /\ leaderboards = EmptyObj
           /\ normalized = <<>> /\ builtBoards = EmptyObj
LookupOff == lookups = 0 /\ requestLog = <<>> /\ returned = EmptyObj
NormOff == nPc = "off" /\ nIn = Undefined /\ nOut1 = Undefined /\ nOut2 = Undefined
ApiOff == now = 0 /\ lastRequestTimestamp = 0 /\ apiPc = "off" /\ attempt = 0
          /\ calls = 0 /\ inFlight = 0 /\ lastSent = -1 /\ minGap = -1
PageOff == pgPc = "off" /\ qsOffset = 0 /\ pageData = <<>> /\ pageIdx = 0
           /\ taskLog = <<>> /\ offsetLog = <<>> /\ served = <<>>

InitEnv == popts \in Options /\ upstream \in Upstreams
           /\ userMap = EmptyObj /\ platformMap = EmptyObj

-----------------------------------------------------------------------------
(* processRun applied to one raw run, then to the run it returned *)

InitNorm ==
    /\ InitEnv
    /\ ~popts.breakoutVariables /\ ~popts.includeRunHistory
    /\ nPc = "start" /\ nIn \in NormRawRuns /\ nOut1 = Undefined /\ nOut2 = Undefined
    /\ PipeOff /\ LookupOff /\ ApiOff /\ PageOff

NormOnce ==
    /\ nPc = "start"
    /\ LET res == ProcessRun(nIn, popts.includeUnverifiedRuns, userMap, platformMap, upstream)
       IN  /\ nOut1' = res.ret
           /\ userMap' = res.userMap
           /\ platformMap' = res.platformMap
    /\ nPc' = "once"
    /\ UNCHANGED <<nIn, nOut2, popts, upstream>>
    /\ UNCHANGED <<pipeVars, lookupVars, apiVars, pageVars>>

NormTwice ==
    /\ nPc = "once"
    /\ nOut1 # Null
    /\ nOut1 # TypeErrorThrown
    /\ LET res == ProcessRun(nOut1, popts.includeUnverifiedRuns, userMap, platformMap, upstream)
       IN  /\ nOut2' = res.ret
           /\ userMap' = res.userMap
           /\ platformMap' = res.platformMap
    /\ nPc' = "twice"
    /\ UNCHANGED <<nIn, nOut1, popts, upstream>>
    /\ UNCHANGED <<pipeVars, lookupVars, apiVars, pageVars>>

NextNorm == NormOnce \/ NormTwice

SpecNorm == InitNorm /\ [][NextNorm]_vars

-----------------------------------------------------------------------------
(* Reading a time string back *)

\* the fields of cs between the separators sep
RECURSIVE SplitAt(_, _)
SplitAt(cs, sep) ==
    IF \A i \in 1..Len(cs) : cs[i] # sep THEN <<cs>>
    ELSE LET k == CHOOSE i \in 1..Len(cs) : cs[i] = sep /\ \A j \in 1..(i - 1) : cs[j] # sep
         IN  <<SubSeq(cs, 1, k - 1)>> \o SplitAt(SubSeq(cs, k + 1, Len(cs)), sep)

DigitValue(c) == CHOOSE d \in 0..9 : DigitChars[d + 1] = c
IsDigits(cs) == Len(cs) > 0 /\ \A i \in 1..Len(cs) : \E d \in 0..9 : DigitChars[d + 1] = cs[i]

RECURSIVE ParseNat(_)
ParseNat(cs) ==
    IF Len(cs) = 0 THEN 0
    ELSE 10 * ParseNat(SubSeq(cs, 1, Len(cs) - 1)) + DigitValue(cs[Len(cs)])

\* a run object, as against null, undefined or a thrown error
IsRun(v) == IsObject(v) /\ v # TypeErrorThrown

\* times.primary_t of the raw run handed to processRun
RawPrimary == Get(Get(nIn, "times"), "primary_t")

-----------------------------------------------------------------------------
(* Claims about processRun, under SpecNorm *)

\* C5 as stated: a run processRun returns has a timeSeconds that is positive
\* after flooring and, unless includeUnverifiedRuns, status 'verified'; a raw
\* run whose primary time is absent or not positive after flooring gives null.
C5_FlooredTimePositive ==
    nPc # "start" =>
        /\ IsRun(nOut1) =>
              /\ IsNum(Get(nOut1, "timeSeconds"))
              /\ Floor(nOut1.timeSeconds.num) > 0
              /\ (~popts.includeUnverifiedRuns => nOut1.status = S("verified"))
        /\ (IsUndefined(RawPrimary) \/ (IsNum(RawPrimary) /\ Floor(RawPrimary.num) <= 0))
              => nOut1 = Null

\* C5 amended: a run processRun returns has timeSeconds equal to the raw
\* primary_t, a number that is not zero (its floor may be 0), and, unless
\* includeUnverifiedRuns, status 'verified'; a raw run whose primary time is
\* absent or zero gives null.
C5_TimeNonZero ==
    nPc # "start" =>
        /\ IsRun(nOut1) =>
              /\ IsNum(Get(nOut1, "timeSeconds"))
              /\ nOut1.timeSeconds = RawPrimary
              /\ nOut1.timeSeconds.num # 0
              /\ (~popts.includeUnverifiedRuns => nOut1.status = S("verified"))
        /\ (IsUndefined(RawPrimary) \/ (IsNum(RawPrimary) /\ RawPrimary.num = 0))
              => nOut1 = Null

\* a verified run under the default options whose time floors to 0 is returned
C5_Witness ==
    /\ nPc = "once" /\ IsRun(nOut1) /\ ~popts.includeUnverifiedRuns
    /\ Floor(nOut1.timeSeconds.num) = 0

\* C8 as stated: processRun applied to the run it returned gives an equal run.
C8_Idempotent == nPc = "twice" => nOut2 = nOut1

\* C8 amended: processRun applied to the run it returned gives null (the run
\* holds status as a string and has no times.primary_t).
C8_ReapplyGivesNull == nPc = "twice" => nOut2 = Null

\* processRun was applied to a returned run that has every optional field
C8_Witness ==
    /\ nPc = "twice"
    /\ {"player", "verifier", "platform", "videos", "time"} \subseteq DOMAIN nOut1

\* C9: for a primary time with floor T >= 0 the time string is HH:MM:SS with
\* seconds and minutes in 0..59 and hours*3600 + minutes*60 + seconds = T,
\* each field of at least two digits, zero-padded to two and no further
\* (3661 gives 01:01:01, 59 gives 00:00:59, 7200 gives 02:00:00).
C9_TimeString ==
    (nPc # "start" /\ IsRun(nOut1) /\ Floor(RawPrimary.num) >= 0) =>
        LET T == Floor(RawPrimary.num)
            cs == nOut1.time.txt
            f == SplitAt(cs, ":")
        IN  /\ Len(f) = 3
            /\ \A i \in 1..3 :
                  /\ IsDigits(f[i])
                  /\ Len(f[i]) >= 2
                  /\ (Len(f[i]) > 2 => f[i][1] # "0")
            /\ ParseNat(f[2]) \in 0..59
            /\ ParseNat(f[3]) \in 0..59
            /\ ParseNat(f[1]) * 3600 + ParseNat(f[2]) * 60 + ParseNat(f[3]) = T
            /\ (T = 3661 => cs = <<"0", "1", ":", "0", "1", ":", "0", "1">>)
            /\ (T = 59 => cs = <<"0", "0", ":", "0", "0", ":", "5", "9">>)
            /\ (T = 7200 => cs = <<"0", "2", ":", "0", "0", ":", "0", "0">>)

\* a run of a hundred hours or more, with minutes and seconds, was formatted
C9_Witness ==
    /\ nPc = "once" /\ IsRun(nOut1)
    /\ Floor(RawPrimary.num) = 363661
    /\ nOut1.time.txt = <<"1", "0", "1", ":", "0", "1", ":", "0", "1">>

-----------------------------------------------------------------------------
(* getUsername and getPlatform called, one call after the other, on the     *)
(* ids that runs refer to (an examiner, a player, a platform, or none)      *)

DefaultOptions ==
    [breakoutVariables |-> FALSE, includeRunHistory |-> FALSE, includeUnverifiedRuns |-> FALSE]

InitLookup ==
    /\ InitEnv /\ popts = DefaultOptions
    /\ lookups = 0
    /\ requestLog = <<>>
    /\ returned = [users |-> [id \in UserIds |-> {}], platforms |-> [id \in PlatformIds |-> {}]]
    /\ PipeOff /\ NormOff /\ ApiOff /\ PageOff

CallGetUsername(userId) ==
    /\ lookups < MaxLookups
    /\ lookups' = lookups + 1
    /\ LET res == GetUsername(userMap, userId, upstream)
       IN  /\ userMap' = res.map
           /\ requestLog' = requestLog \o res.reqs
           /\ returned' = IF Truthy(userId)
                          THEN [returned EXCEPT !.users[userId.str] = @ \cup {res.ret}]
                          ELSE returned
    /\ UNCHANGED <<popts, platformMap, upstream>>
    /\ UNCHANGED <<pipeVars, normVars, apiVars, pageVars>>

CallGetPlatform(platformId) ==
    /\ lookups < MaxLookups
    /\ lookups' = lookups + 1
    /\ LET res == GetPlatform(platformMap, platformId, upstream)
       IN  /\ platformMap' = res.map
           /\ requestLog' = requestLog \o res.reqs
           /\ returned' = IF Truthy(platformId)
                          THEN [returned EXCEPT !.platforms[platformId.str] = @ \cup {res.ret}]
                          ELSE returned
    /\ UNCHANGED <<popts, userMap, upstream>>
    /\ UNCHANGED <<pipeVars, normVars, apiVars, pageVars>>

NextLookup ==
    \/ \E id \in UserIds : CallGetUsername(S(id))
    \/ CallGetUsername(Undefined)
    \/ \E id \in PlatformIds : CallGetPlatform(S(id))
    \/ CallGetPlatform(Undefined)

SpecLookup == InitLookup /\ [][NextLookup]_vars

\* the requests of path made so far
RequestsOf(path) == Cardinality({i \in 1..Len(requestLog) : requestLog[i] = path})

\* C6 as stated: for every user id and every platform id at most one request
\* is issued for that id, and every call for the same id returns the same
\* result, whatever the API answers.
C6_FetchedAtMostOnce ==
    /\ \A id \in UserIds :
          RequestsOf("users/" \o id) <= 1 /\ Cardinality(returned.users[id]) <= 1
    /\ \A id \in PlatformIds :
          RequestsOf("platforms/" \o id) <= 1 /\ Cardinality(returned.platforms[id]) <= 1

-----------------------------------------------------------------------------
(* speedrunApiRequest (lines 27-52), called by a caller that awaits each    *)
(* call before making the next.  Times are in ms.                           *)

REQUEST_TIMESTAMP_INTERVAL == 1000
\* pasync.retry(3, ...): attempts per call
RETRY_TIMES == 3
\* pasync.setTimeout(10000) after a failed attempt
RETRY_BACKOFF == 10000

\* time an HTTP request takes to succeed or to fail
Latencies == {50, 1200}
\* time the caller spends between the return of one call and the next call
IdleTimes == {0, 400, 2500}
\* time by which a timer fires late
TimerLateness == {0, 7}

\* got(url, ...) is called at time t
Sent(t) ==
    /\ inFlight' = inFlight + 1
    /\ lastSent' = t
    /\ minGap' = IF lastSent = -1 THEN minGap
                 ELSE IF minGap = -1 \/ t - lastSent < minGap THEN t - lastSent
                 ELSE minGap

InitApi ==
    /\ InitEnv /\ popts = DefaultOptions /\ upstream = CHOOSE u \in Upstreams : TRUE
    \* Date.now() is far past the interval when the program starts
    /\ now = 5 * REQUEST_TIMESTAMP_INTERVAL
    /\ lastRequestTimestamp = 0
    /\ apiPc = "idle" /\ attempt = 0 /\ calls = 0 /\ inFlight = 0
    /\ lastSent = -1 /\ minGap = -1
    /\ PipeOff /\ LookupOff /\ NormOff /\ PageOff

\* lines 32-33: the call starts; it sleeps when the last stamp is too recent
ApiCall(idle) ==
    /\ apiPc = "idle" /\ calls < MaxCalls
    /\ calls' = calls + 1
    /\ now' = now + idle
    /\ IF now' - lastRequestTimestamp < REQUEST_TIMESTAMP_INTERVAL
       THEN /\ apiPc' = "sleep"
            /\ UNCHANGED <<lastRequestTimestamp, attempt, inFlight, lastSent, minGap>>
       ELSE /\ lastRequestTimestamp' = now'
            /\ apiPc' = "inflight"
            /\ attempt' = 1
            /\ Sent(now')
    /\ UNCHANGED <<pipeVars, envVars, lookupVars, normVars, pageVars>>

\* lines 34-43: the sleep of REQUEST_TIMESTAMP_INTERVAL - timestampDiff ends
ApiWake(late) ==
    /\ apiPc = "sleep"
    /\ now' = now + (REQUEST_TIMESTAMP_INTERVAL - (now - lastRequestTimestamp)) + late
    /\ lastRequestTimestamp' = now'
    /\ apiPc' = "inflight"
    /\ attempt' = 1
    /\ Sent(now')
    /\ UNCHANGED calls
    /\ UNCHANGED <<pipeVars, envVars, lookupVars, normVars, pageVars>>

\* lines 43, 50-51: the response arrives and the call returns
ApiRespond(latency) ==
    /\ apiPc = "inflight"
    /\ now' = now + latency
    /\ inFlight' = inFlight - 1
    /\ apiPc' = "idle"
    /\ attempt' = 0
    /\ UNCHANGED <<lastRequestTimestamp, calls, lastSent, minGap>>
    /\ UNCHANGED <<pipeVars, envVars, lookupVars, normVars, pageVars>>

\* lines 44-46: the request fails and the attempt sleeps RETRY_BACKOFF
ApiFail(latency) ==
    /\ apiPc = "inflight"
    /\ now' = now + latency
    /\ inFlight' = inFlight - 1
    /\ apiPc' = "backoff"
    /\ UNCHANGED <<lastRequestTimestamp, attempt, calls, lastSent, minGap>>
    /\ UNCHANGED <<pipeVars, envVars, lookupVars, normVars, pageVars>>

\* lines 41, 47: the attempt throws; pasync.retry tries again or gives up
ApiRetry(late) ==
    /\ apiPc = "backoff"
    /\ now' = now + RETRY_BACKOFF + late
    /\ IF attempt < RETRY_TIMES
       THEN /\ apiPc' = "inflight"
            /\ attempt' = attempt + 1
            /\ Sent(now')
       ELSE /\ apiPc' = "failed"
            /\ UNCHANGED <<attempt, inFlight, lastSent, minGap>>
    /\ UNCHANGED <<lastRequestTimestamp, calls>>
    /\ UNCHANGED <<pipeVars, envVars, lookupVars, normVars, pageVars>>

NextApi ==
    \/ \E idle \in IdleTimes : ApiCall(idle)
    \/ \E late \in TimerLateness : ApiWake(late)
    \/ \E latency \in Latencies : ApiRespond(latency)
    \/ \E latency \in Latencies : ApiFail(latency)
    \/ \E late \in TimerLateness : ApiRetry(late)

SpecApi == InitApi /\ [][NextApi]_vars

\* C7 as stated: any two consecutive HTTP requests, retries included, start
\* at least REQUEST_TIMESTAMP_INTERVAL apart, and no request is sent while
\* another is in flight.
C7_RequestsSpaced ==
    /\ (minGap = -1 \/ minGap >= REQUEST_TIMESTAMP_INTERVAL)
    /\ inFlight <= 1

-----------------------------------------------------------------------------
(* paginateSpeedrunApiRequest (lines 54-70).  An item is named by its       *)
(* position in the whole listing.                                           *)

PAGINATE_PAGE_SIZE == 100

\* lengths of the pages the API serves
PageLens == {0, 1, PAGINATE_PAGE_SIZE - 1, PAGINATE_PAGE_SIZE}

\* line 64 with <= for <
IsLastPageOrFull(page) == Len(page) <= PAGINATE_PAGE_SIZE

\* line 64: pageData.length < PAGINATE_PAGE_SIZE
IsLastPage(page) == Len(page) < PAGINATE_PAGE_SIZE

InitPage ==
    /\ InitEnv /\ popts = DefaultOptions /\ upstream = CHOOSE u \in Upstreams : TRUE
    \* lines 56-58
    /\ pgPc = "request" /\ qsOffset = 0
    /\ pageData = <<>> /\ pageIdx = 0
    /\ taskLog = <<>> /\ offsetLog = <<>> /\ served = <<>>
    /\ PipeOff /\ LookupOff /\ NormOff /\ ApiOff

\* line 60: speedrunApiRequest resolves to a page of n items
PageRequest(n) ==
    /\ pgPc = "request"
    /\ (Len(offsetLog) < MaxPages \/ n < PAGINATE_PAGE_SIZE)
    /\ offsetLog' = Append(offsetLog, qsOffset)
    /\ pageData' = [i \in 1..n |-> qsOffset + i]
    /\ served' = Append(served, pageData')
    /\ pageIdx' = 0
    /\ pgPc' = "task"
    /\ UNCHANGED <<qsOffset, taskLog>>
    /\ UNCHANGED <<pipeVars, envVars, lookupVars, normVars, apiVars>>

\* line 60: speedrunApiRequest rejects (retries exhausted, or a bad format)
PageRequestFails ==
    /\ pgPc = "request"
    /\ offsetLog' = Append(offsetLog, qsOffset)
    /\ pgPc' = "aborted"
    /\ UNCHANGED <<qsOffset, pageData, pageIdx, taskLog, served>>
    /\ UNCHANGED <<pipeVars, envVars, lookupVars, normVars, apiVars>>

\* lines 61-63: task is called on the next item and resolves
PageTask ==
    /\ pgPc = "task" /\ pageIdx < Len(pageData)
    /\ taskLog' = Append(taskLog, pageData[pageIdx + 1])
    /\ pageIdx' = pageIdx + 1
    /\ UNCHANGED <<pgPc, qsOffset, pageData, offsetLog, served>>
    /\ UNCHANGED <<pipeVars, envVars, lookupVars, normVars, apiVars>>

\* lines 61-63: task is called on the next item and rejects
PageTaskThrows ==
    /\ pgPc = "task" /\ pageIdx < Len(pageData)
    /\ taskLog' = Append(taskLog, pageData[pageIdx + 1])
    /\ pageIdx' = pageIdx + 1
    /\ pgPc' = "aborted"
    /\ UNCHANGED <<qsOffset, pageData, offsetLog, served>>
    /\ UNCHANGED <<pipeVars, envVars, lookupVars, normVars, apiVars>>

\* lines 64-68: the page is done
PageEnd ==
    /\ pgPc = "task" /\ pageIdx = Len(pageData)
    /\ IF IsLastPage(pageData)
       THEN pgPc' = "done" /\ UNCHANGED qsOffset
       ELSE pgPc' = "request" /\ qsOffset' = qsOffset + PAGINATE_PAGE_SIZE
    /\ UNCHANGED <<pageData, pageIdx, taskLog, offsetLog, served>>
    /\ UNCHANGED <<pipeVars, envVars, lookupVars, normVars, apiVars>>

NextPage ==
    \/ \E n \in PageLens : PageRequest(n)
    \/ PageRequestFails
    \/ PageTask
    \/ PageTaskThrows
    \/ PageEnd

\* every awaited request settles and every continuation is run
SpecPage == InitPage /\ [][NextPage]_vars /\ WF_vars(NextPage)

RECURSIVE Flatten(_)
Flatten(pages) ==
    IF Len(pages) = 0 THEN <<>> ELSE Head(pages) \o Flatten(Tail(pages))

IsPrefix(p, q) == Len(p) <= Len(q) /\ SubSeq(q, 1, Len(p)) = p

PageOrder ==
    \* offsets 0, 100, 200, ... in that order
    /\ \A i \in 1..Len(offsetLog) : offsetLog[i] = (i - 1) * PAGINATE_PAGE_SIZE
    \* task called once on each item, in page order
    /\ IsPrefix(taskLog, Flatten(served))
    \* a page is finished before the next request, and before the end
    /\ (pgPc \in {"request", "done"} => taskLog = Flatten(served))
    /\ (pgPc = "task" => Len(taskLog) = Len(Flatten(served)) - Len(pageData) + pageIdx)
    \* no request follows a short page
    /\ \A i \in 1..(Len(served) - 1) : Len(served[i]) >= PAGINATE_PAGE_SIZE
    /\ Len(offsetLog) \in {Len(served), Len(served) + 1}
    /\ (pgPc = "done" => Len(served) = Len(offsetLog)
                          /\ Len(served[Len(served)]) < PAGINATE_PAGE_SIZE)
    /\ (pgPc = "request" => Len(served) = Len(offsetLog)
                             /\ (Len(served) > 0 =>
                                    Len(served[Len(served)]) >= PAGINATE_PAGE_SIZE))

\* C10: pages are requested at offsets 0, 100, 200, ... in that order; task is
\* called exactly once on every item of every returned page, in page order,
\* each page finished before the next request; no request follows the first
\* page of fewer than 100 items; and once such a page is returned the
\* pagination ends (it returns, or a task's rejection ends it).
C10_Pagination ==
    /\ []PageOrder
    /\ ((pgPc = "task" /\ Len(pageData) < PAGINATE_PAGE_SIZE) ~> (pgPc \in {"done", "aborted"}))

\* two full pages and a short one were requested and iterated to the end
C10_Witness ==
    /\ pgPc = "done"
    /\ offsetLog = <<0, PAGINATE_PAGE_SIZE, 2 * PAGINATE_PAGE_SIZE>>
    /\ Len(taskLog) = 3 * PAGINATE_PAGE_SIZE - 1

-----------------------------------------------------------------------------
(* The leaderboard builder (lines 218-281) *)

\* line 228 / 232 without uncategorized = true: the walk only breaks
BreakOnly(walk) == walk

\* lines 228, 232: uncategorized = true
MarkUncategorized(walk) == [walk EXCEPT !.uncategorized = TRUE]

\* lines 223-237: the walk of the category's variables from the i-th on
RECURSIVE WalkVariables(_, _, _, _)
WalkVariables(variables, runObj, i, walk) ==
    IF i > Len(variables) THEN walk
    ELSE LET catVariable == variables[i]
             value == Get(runObj.variables, PropKey(catVariable.id))
         IN  IF ~Truthy(value) THEN MarkUncategorized(walk)
             ELSE IF ~Truthy(Get(catVariable.values, PropKey(value)))
             THEN MarkUncategorized(walk)
             ELSE WalkVariables(variables, runObj, i + 1,
                    [uncategorized |-> walk.uncategorized,
                     usedVars |-> Put(walk.usedVars, PropKey(catVariable.id), value),
                     orderedVars |-> Append(walk.orderedVars,
                                            [key |-> catVariable.id, value |-> value])])

\* lines 246-255: the id, with $key^value for the first i of orderedVars
RECURSIVE BreakoutId(_, _, _)
BreakoutId(catId, orderedVars, i) ==
    IF i = 0 THEN catId
    ELSE BreakoutId(catId, orderedVars, i - 1)
            \o "$" \o orderedVars[i].key.str \o "^" \o orderedVars[i].value.str

\* lines 246-255: the name, with the labels of the first i of orderedVars
RECURSIVE BreakoutName(_, _, _)
BreakoutName(catObj, orderedVars, i) ==
    IF i = 0 THEN catObj.name.str
    ELSE BreakoutName(catObj, orderedVars, i - 1)
            \o (IF i = 1 THEN " - " ELSE ", ")
            \o catObj.variables.arr[i].values[PropKey(orderedVars[i].value)].label.str

\* lines 222-268: one run of the category is placed
PlaceRun(lbs, catId, catObj, runObj) ==
    LET walk == WalkVariables(catObj.variables.arr, runObj, 1,
                    [uncategorized |-> FALSE, usedVars |-> EmptyObj, orderedVars |-> <<>>])
        lbId == IF walk.uncategorized THEN catId \o "$UNCATEGORIZED"
                ELSE BreakoutId(catId, walk.orderedVars, Len(walk.orderedVars))
        lbName == IF walk.uncategorized THEN catObj.name.str \o " - Uncategorized"
                  ELSE BreakoutName(catObj, walk.orderedVars, Len(walk.orderedVars))
        lbs1 == IF ~Truthy(Get(lbs, lbId))
                THEN Put(lbs, lbId, [id |-> S(lbId), categoryId |-> S(catId),
                                     variables |-> walk.usedVars, name |-> S(lbName),
                                     runs |-> Arr(<<>>)])
                ELSE lbs
    IN  [lbs1 EXCEPT ![lbId].runs = Arr(Append(@.arr, runObj))]

RECURSIVE PlaceRuns(_, _, _, _)
PlaceRuns(lbs, catId, catObj, i) ==
    IF i = 0 THEN lbs
    ELSE PlaceRun(PlaceRuns(lbs, catId, catObj, i - 1), catId, catObj, catObj.runs.arr[i])

\* lines 220-278: the leaderboards after one category is split
BuildCategory(lbs, catId, catObj, breakoutVariables) ==
    IF breakoutVariables
    THEN PlaceRuns(lbs, catId, catObj, Len(catObj.runs.arr))
    ELSE Put(lbs, catId, [id |-> S(catId), categoryId |-> S(catId), variables |-> EmptyObj,
                          name |-> catObj.name, runs |-> catObj.runs])

-----------------------------------------------------------------------------
(* The ranker (lines 283-317) *)

\* line 288 without the test of run.player.id
EligibleWithPlayer(run) ==
    Truthy(Get(run, "timeSeconds")) /\ Truthy(Get(run, "player"))

\* line 288: the runs that are not skipped
Eligible(run) ==
    /\ Truthy(Get(run, "timeSeconds"))
    /\ Truthy(Get(run, "player"))
    /\ Truthy(Get(Get(run, "player"), "id"))

\* sort((a, b) => a.timeSeconds - b.timeSeconds): x is put after the runs
\* that are not slower (the sort is stable)
RECURSIVE InsertByTime(_, _)
InsertByTime(sorted, x) ==
    IF Len(sorted) = 0 THEN <<x>>
    ELSE IF x.timeSeconds.num - Head(sorted).timeSeconds.num < 0 THEN <<x>> \o sorted
    ELSE <<Head(sorted)>> \o InsertByTime(Tail(sorted), x)

RECURSIVE SortByTime(_)
SortByTime(runs) ==
    IF Len(runs) = 0 THEN <<>>
    ELSE InsertByTime(SortByTime(SubSeq(runs, 1, Len(runs) - 1)), runs[Len(runs)])

\* line 294 without the sort
UserRunsAsPushed(userRuns) == userRuns

\* line 294
SortUserRuns(userRuns) == SortByTime(userRuns)

\* line 306
SortEntries(lbEntries) == SortByTime(lbEntries)

\* lines 286-291: the keys of runsByUserId, in the order they were created
RECURSIVE UserIdsInOrder(_)
UserIdsInOrder(runs) ==
    IF Len(runs) = 0 THEN <<>>
    ELSE LET before == UserIdsInOrder(SubSeq(runs, 1, Len(runs) - 1))
             key == PropKey(runs[Len(runs)].player.id)
         IN  IF \E i \in 1..Len(before) : before[i] = key THEN before
             ELSE Append(before, key)

\* lines 294-304: the entry of one user
UserEntry(runs, userId, includeRunHistory) ==
    LET IsOfUser(run) == PropKey(run.player.id) = userId
        userRuns == SortUserRuns(SelectSeq(runs, IsOfUser))
        entry == userRuns[1]
    IN  IF includeRunHistory THEN Put(entry, "obsoleteRuns", Arr(Tail(userRuns)))
        ELSE entry

\* lines 308-314 with the rank after a slower run one more than the last rank
RankDense(i, tied, previousRank) ==
    IF i = 1 THEN 1 ELSE IF tied THEN previousRank ELSE previousRank + 1

\* lines 308-314: the rank of the i-th entry (i counted from 1)
RankAt(i, tied, previousRank) ==
    IF i = 1 THEN 1 ELSE IF tied THEN previousRank ELSE i

\* lines 307-315: rank set on the first i entries
RECURSIVE AssignRanks(_, _)
AssignRanks(lbEntries, i) ==
    IF i = 0 THEN lbEntries
    ELSE LET ranked == AssignRanks(lbEntries, i - 1)
             tied == i > 1 /\ ranked[i].timeSeconds = ranked[i - 1].timeSeconds
             previousRank == IF i > 1 THEN ranked[i - 1].rank.num ELSE 0
         IN  [ranked EXCEPT ![i] = Put(@, "rank", N(RankAt(i, tied, previousRank)))]

\* lines 285-316: one leaderboard ranked
RankLeaderboard(lbObj, includeRunHistory) ==
    LET runs == SelectSeq(lbObj.runs.arr, Eligible)
        userIds == UserIdsInOrder(runs)
        lbEntries == [k \in 1..Len(userIds) |-> UserEntry(runs, userIds[k], includeRunHistory)]
        sorted == SortEntries(lbEntries)
    IN  [lbObj EXCEPT !.runs = Arr(AssignRanks(sorted, Len(sorted)))]

-----------------------------------------------------------------------------
(* run() for a game of one category, from the fetch of the category's runs  *)
(* (lines 211-214) to the ranked leaderboards (line 317)                    *)

CatId == "c1"

\* the category as lines 187-209 build it: two variables, in this order
Category ==
    [id |-> S(CatId), name |-> S("Any%"), rules |-> S("rules"),
     variables |-> Arr(<<
        [id |-> S("v1"), name |-> S("Difficulty"),
         values |-> [easy |-> [label |-> S("Easy"), rules |-> Undefined],
                     hard |-> [label |-> S("Hard"), rules |-> Undefined]]],
        [id |-> S("v2"), name |-> S("Version"),
         values |-> [pal |-> [label |-> S("PAL"), rules |-> Undefined]]] >>),
     runs |-> Arr(<<>>)]

\* the values objects of the raw runs
FullValues == [v1 |-> S("easy"), v2 |-> S("pal")]
OtherValues ==
    {[v1 |-> S("hard"), v2 |-> S("pal")],        \* another combination
     [v1 |-> S("easy")],                         \* no value for the second variable
     [v1 |-> S("nightmare"), v2 |-> S("pal")]}   \* a value v1 does not define

Seconds(n) == [primary_t |-> N(n * TicksPerSecond)]

\* players and whole seconds of the runs of single players
SinglePlayerRuns ==
    {<<GuestPlayer("g1"), 1>>, <<UserPlayer("u1"), 1>>, <<UserPlayer("u1"), 2>>,
     <<UserPlayer("u1"), 3>>, <<UserPlayer("u2"), 2>>}

\* the raw runs the API may return as the run numbered id
PipeRawRuns(id) ==
    {Put(RawRun(id, VerifiedStatus, <<pt[1]>>, FullValues), "times", Seconds(pt[2])) :
        pt \in SinglePlayerRuns}
    \* runs without a single resolved player, and a run that is not verified
    \cup {Put(RawRun(id, VerifiedStatus, pl, FullValues), "times", Seconds(1)) :
            pl \in {<<>>, <<UserPlayer("u1"), UserPlayer("u2")>>, <<[rel |-> S("user")]>>}}
    \cup {Put(RawRun(id, [status |-> S("new")], <<UserPlayer("u2")>>, FullValues),
              "times", Seconds(1))}
    \* runs of other variable values
    \cup {Put(RawRun(id, VerifiedStatus, <<UserPlayer("u1")>>, vals), "times", Seconds(2)) :
            vals \in OtherValues}

\* u1 has a name, u2 has none
PipeUpstream ==
    [users |-> [id \in UserIds |-> UserResponse(id, id = "u1")],
     platforms |-> [id \in PlatformIds |-> PlatformResponse(id, TRUE)]]

Init ==
    /\ popts \in Options /\ ~popts.includeUnverifiedRuns
    /\ upstream = PipeUpstream
    /\ userMap = EmptyObj /\ platformMap = EmptyObj
    /\ stage = "fetch"
    /\ received = 0
    /\ categories = Put(EmptyObj, CatId, Category)
    /\ leaderboards = EmptyObj
    /\ normalized = <<>>
    /\ builtBoards = EmptyObj
    /\ LookupOff /\ NormOff /\ ApiOff /\ PageOff

\* lines 211-214: the pagination's task on one raw run
ReceiveRun(raw) ==
    /\ stage = "fetch" /\ received < MaxRuns
    /\ received' = received + 1
    /\ LET res == ProcessRun(raw, popts.includeUnverifiedRuns, userMap, platformMap, upstream)
       IN  /\ userMap' = res.userMap
           /\ platformMap' = res.platformMap
           /\ IF Truthy(res.ret)
              THEN /\ categories' = [categories EXCEPT ![CatId].runs = Arr(Append(@.arr, res.ret))]
                   /\ normalized' = Append(normalized, res.ret)
              ELSE UNCHANGED <<categories, normalized>>
    /\ UNCHANGED <<stage, leaderboards, builtBoards, popts, upstream>>
    /\ UNCHANGED <<lookupVars, normVars, apiVars, pageVars>>

\* lines 218-281: the pagination is over; every category is split
BuildLeaderboards ==
    /\ stage = "fetch"
    /\ stage' = "built"
    /\ leaderboards' = BuildCategory(leaderboards, CatId, categories[CatId],
                                      popts.breakoutVariables)
    /\ builtBoards' = leaderboards'
    /\ categories' = [categories EXCEPT ![CatId] = Delete(@, "runs")]
    /\ UNCHANGED <<received, normalized, envVars>>
    /\ UNCHANGED <<lookupVars, normVars, apiVars, pageVars>>

\* lines 283-317: every leaderboard is ranked
RankLeaderboards ==
    /\ stage = "built"
    /\ stage' = "ranked"
    /\ leaderboards' = [lbId \in DOMAIN leaderboards |->
                            RankLeaderboard(leaderboards[lbId], popts.includeRunHistory)]
    /\ UNCHANGED <<received, categories, normalized, builtBoards, envVars>>
    /\ UNCHANGED <<lookupVars, normVars, apiVars, pageVars>>

Next ==
    \/ \E raw \in PipeRawRuns("r" \o ToString(received + 1)) : ReceiveRun(raw)
    \/ BuildLeaderboards
    \/ RankLeaderboards

Spec == Init /\ [][Next]_vars

-----------------------------------------------------------------------------
(* Claims about the builder and the ranker, under Spec *)

\* the final runs list of a leaderboard, and the list the builder gave it
EntriesOf(lbId) == leaderboards[lbId].runs.arr
BuiltRunsOf(lbId) == builtBoards[lbId].runs.arr

TimeOf(run) == run.timeSeconds.num

\* a normalized run with no timeSeconds or no resolved single player
LacksTimeOrPlayer(run) ==
    \/ "timeSeconds" \notin DOMAIN run
    \/ "player" \notin DOMAIN run
    \/ IsUndefined(run.player.id)

\* C1: after the ranking, in every leaderboard the entries ascend in
\* timeSeconds; the first has rank 1, an entry as fast as its predecessor has
\* the predecessor's rank, any other entry has its 1-based position as rank
\* (so a rank is one more than the number of strictly faster entries).
C1_CompetitionRanking ==
    stage = "ranked" =>
        \A lbId \in DOMAIN leaderboards :
            LET e == EntriesOf(lbId)
            IN  \A i \in 1..Len(e) :
                    /\ IsNum(Get(e[i], "rank"))
                    /\ (i = 1 => e[i].rank.num = 1)
                    /\ (i > 1 => TimeOf(e[i - 1]) <= TimeOf(e[i]))
                    /\ (i > 1 /\ TimeOf(e[i]) = TimeOf(e[i - 1])
                            => e[i].rank.num = e[i - 1].rank.num)
                    /\ (i > 1 /\ TimeOf(e[i]) # TimeOf(e[i - 1]) => e[i].rank.num = i)
                    /\ e[i].rank.num
                          = 1 + Cardinality({j \in 1..Len(e) : TimeOf(e[j]) < TimeOf(e[i])})

\* a leaderboard of two tied entries and a slower one, ranked 1, 1, 3
C1_Witness ==
    /\ stage = "ranked"
    /\ \E lbId \in DOMAIN leaderboards :
          LET e == EntriesOf(lbId)
          IN  /\ Len(e) = 3
              /\ TimeOf(e[1]) = TimeOf(e[2]) /\ TimeOf(e[2]) < TimeOf(e[3])
              /\ <<e[1].rank.num, e[2].rank.num, e[3].rank.num>> = <<1, 1, 3>>

\* C2: a normalized run with no timeSeconds or no resolved single player is
\* in no leaderboard's final runs list, neither as an entry nor inside an
\* entry's obsoleteRuns, whatever the options.
C2_IneligibleNeverListed ==
    stage = "ranked" =>
        \A k \in 1..Len(normalized) :
            LacksTimeOrPlayer(normalized[k]) =>
                \A lbId \in DOMAIN leaderboards :
                    LET e == EntriesOf(lbId)
                    IN  \A i \in 1..Len(e) :
                            /\ e[i].id # normalized[k].id
                            /\ "obsoleteRuns" \in DOMAIN e[i] =>
                                  \A j \in 1..Len(e[i].obsoleteRuns.arr) :
                                      e[i].obsoleteRuns.arr[j].id # normalized[k].id

\* a leaderboard was built of a run with no player, a run whose player has
\* no id and a run of a single player, and ranked with the history kept
C2_Witness ==
    /\ stage = "ranked" /\ popts.includeRunHistory
    /\ \E lbId \in DOMAIN leaderboards :
          LET b == BuiltRunsOf(lbId)
          IN  /\ \E i \in 1..Len(b) : "player" \notin DOMAIN b[i]
              /\ \E i \in 1..Len(b) : "player" \in DOMAIN b[i] /\ IsUndefined(b[i].player.id)
              /\ Len(EntriesOf(lbId)) = 1

\* the leaderboards that hold the run, and how often they hold it
HoldersOf(run) ==
    {lbId \in DOMAIN leaderboards :
        \E i \in 1..Len(EntriesOf(lbId)) : EntriesOf(lbId)[i].id = run.id}
TimesHeld(run, lbId) ==
    Cardinality({i \in 1..Len(EntriesOf(lbId)) : EntriesOf(lbId)[i].id = run.id})

\* the run has no value, or a value the variable does not define, for one of
\* the two variables of the category
LacksAValue(run) ==
    \/ "v1" \notin DOMAIN run.variables
    \/ "v2" \notin DOMAIN run.variables
    \/ run.variables.v1.str \notin {"easy", "hard"}
    \/ run.variables.v2.str \notin {"pal"}

\* C3: with breakoutVariables the builder places every normalized run of the
\* category in exactly one leaderboard: "<cat>$UNCATEGORIZED" when the run
\* lacks a value for a variable (or has one the variable does not define),
\* else the leaderboard whose id lists the variables in their fixed order.
C3_ExactlyOneBoard ==
    (stage = "built" /\ popts.breakoutVariables) =>
        \A k \in 1..Len(normalized) :
            LET run == normalized[k]
                expected == IF LacksAValue(run) THEN "c1$UNCATEGORIZED"
                            ELSE "c1$v1^" \o run.variables.v1.str
                                    \o "$v2^" \o run.variables.v2.str
            IN  /\ HoldersOf(run) = {expected}
                /\ TimesHeld(run, expected) = 1
                /\ leaderboards[expected].id = S(expected)

\* three runs went to three leaderboards: two combinations of values, and
\* the uncategorized one for a run with a value for the first variable only
C3_Witness ==
    /\ stage = "built" /\ popts.breakoutVariables
    /\ DOMAIN leaderboards = {"c1$v1^easy$v2^pal", "c1$v1^hard$v2^pal", "c1$UNCATEGORIZED"}
    /\ \E i \in 1..Len(EntriesOf("c1$UNCATEGORIZED")) :
          DOMAIN EntriesOf("c1$UNCATEGORIZED")[i].variables = {"v1"}

\* C4: in every leaderboard each player id with an eligible run has exactly
\* one entry, a fastest of that player's runs; with includeRunHistory its
\* obsoleteRuns are exactly that player's other eligible runs of the
\* leaderboard in ascending timeSeconds; without it no entry has obsoleteRuns.
C4_OneEntryPerPlayer ==
    stage = "ranked" =>
        \A lbId \in DOMAIN leaderboards :
            LET b == BuiltRunsOf(lbId)
                e == EntriesOf(lbId)
                eligible == {i \in 1..Len(b) : ~LacksTimeOrPlayer(b[i])}
                players == {b[i].player.id : i \in eligible}
            IN  /\ Len(e) = Cardinality(players)
                /\ \A p \in players :
                      LET mine == {i \in eligible : b[i].player.id = p}
                          entries == {j \in 1..Len(e) : e[j].player.id = p}
                      IN  /\ Cardinality(entries) = 1
                          /\ \A j \in entries :
                                /\ \E i \in mine : b[i].id = e[j].id
                                /\ \A i \in mine : TimeOf(e[j]) <= TimeOf(b[i])
                                /\ IF popts.includeRunHistory
                                   THEN /\ "obsoleteRuns" \in DOMAIN e[j]
                                        /\ LET obs == e[j].obsoleteRuns.arr
                                           IN  /\ Len(obs) = Cardinality(mine) - 1
                                               /\ {obs[k] : k \in 1..Len(obs)}
                                                     = {b[i] : i \in mine} \ {b[i] : i \in {x \in mine : b[x].id = e[j].id}}
                                               /\ \A k \in 2..Len(obs) :
                                                     TimeOf(obs[k - 1]) <= TimeOf(obs[k])
                                   ELSE "obsoleteRuns" \notin DOMAIN e[j]

\* a player's runs of 3 s, 1 s and 2 s gave one entry of 1 s whose
\* obsoleteRuns are the runs of 2 s and 3 s, in that order
C4_Witness ==
    /\ stage = "ranked" /\ popts.includeRunHistory
    /\ \E lbId \in DOMAIN leaderboards :
          LET b == BuiltRunsOf(lbId)
              e == EntriesOf(lbId)
          IN  /\ Len(b) = 3 /\ Len(e) = 1
              /\ <<TimeOf(b[1]), TimeOf(b[2]), TimeOf(b[3])>>
                    = <<3 * TicksPerSecond, 1 * TicksPerSecond, 2 * TicksPerSecond>>
              /\ TimeOf(e[1]) = 1 * TicksPerSecond
              /\ <<TimeOf(e[1].obsoleteRuns.arr[1]), TimeOf(e[1].obsoleteRuns.arr[2])>>
                    = <<2 * TicksPerSecond, 3 * TicksPerSecond>>

=============================================================================
